---------------------------- MODULE Spec2Model ----------------------------
(***************************************************************************)
(* Model of scripts/manage_model_apis.py: a command-line tool that lists,  *)
(* stops and restarts the model deployments of a remote platform, and      *)
(* keeps the stopped ones in the text file stopped_models.txt.             *)
(*                                                                         *)
(* Text (field values, lines, the file) is a sequence of one-character     *)
(* strings, so that writing a record and parsing it back are computed as   *)
(* the code computes them.                                                 *)
(***************************************************************************)
EXTENDS Integers, Sequences, FiniteSets

(***************************************************************************)
(* Bounds of the exploration.                                              *)
(***************************************************************************)
\* projects known to the platform (length of the project list)
MaxProjects == 2
\* models of one project (length of a model list)
MaxModels == 2
\* stop calls the platform answers with 200 in one behaviour
MaxStops == 2

(***************************************************************************)
(* Characters and Python's string functions.                               *)
(***************************************************************************)
Comma == ","
NL == "\n"
Space == " "

\* the characters str.strip() removes at both ends
Whitespace == {Space, NL}

RECURSIVE LStrip(_)
LStrip(s) ==
    IF s # <<>> /\ Head(s) \in Whitespace THEN LStrip(Tail(s)) ELSE s

RECURSIVE RStrip(_)
RStrip(s) ==
    IF s # <<>> /\ s[Len(s)] \in Whitespace
    THEN RStrip(SubSeq(s, 1, Len(s) - 1))
    ELSE s

\* str.strip()
Strip(s) == RStrip(LStrip(s))

\* str.split(sep): the fields between the separators, one more than there are separators
RECURSIVE SplitFrom(_, _, _)
SplitFrom(s, sep, cur) ==
    IF s = <<>> THEN <<cur>>
    ELSE IF Head(s) = sep THEN <<cur>> \o SplitFrom(Tail(s), sep, <<>>)
    ELSE SplitFrom(Tail(s), sep, Append(cur, Head(s)))

Split(s, sep) == SplitFrom(s, sep, <<>>)

\* file.readlines(): the lines with their terminators; a last line without one is kept
RECURSIVE LinesFrom(_, _)
LinesFrom(s, cur) ==
    IF s = <<>> THEN (IF cur = <<>> THEN <<>> ELSE <<cur>>)
    ELSE IF Head(s) = NL THEN <<Append(cur, NL)>> \o LinesFrom(Tail(s), <<>>)
    ELSE LinesFrom(Tail(s), Append(cur, Head(s)))

ReadLines(text) == LinesFrom(text, <<>>)

\* f"{model['name']},{model_id},{active_model_version_id}"
FormatRecord(model) ==
    model.name \o <<Comma>> \o model.id \o <<Comma>> \o model.ver

\* file.write(f"{model}\n") for every entry of stopped_models
RECURSIVE WriteLines(_)
WriteLines(records) ==
    IF records = <<>> THEN <<>>
    ELSE Head(records) \o <<NL>> \o WriteLines(Tail(records))


(***************************************************************************)
(* The remote platform, as the program sees it through its four endpoints. *)
(* Model j of project p has identifiers of its own; some names and version *)
(* ids carry the characters the file format is sensitive to.               *)
(***************************************************************************)
HttpOk == 200
HttpStatuses == {200, 500}
ModelStatuses == {"Running", "Stopped"}
Operations == {"show-all", "show-running", "stop", "start"}

Digit(n) == <<"1", "2", "3", "4", "5", "6", "7", "8", "9">>[n]

\* The models the platform hosts, as (name, id, version id).  The second has a version
\* id ending in a blank, the third a name that is a line break, the fourth a name with
\* a comma.
Catalogue ==
    << [name |-> <<"a">>,        id |-> <<"m", "1">>, ver |-> <<"v", "1">>],
       [name |-> <<"b">>,        id |-> <<"m", "2">>, ver |-> <<"v", "2", Space>>],
       [name |-> <<NL>>,         id |-> <<"m", "3">>, ver |-> <<"v", "3">>],
       [name |-> <<"d", Comma>>, id |-> <<"m", "4">>, ver |-> <<"v", "4">>] >>

\* the j-th model of project p: the projects share the catalogue out in turn
Slot(p, j) == (((p - 1) * MaxModels + j - 1) % Len(Catalogue)) + 1

\* one entry of the JSON array of GET /v4/modelManager/getModels
Model(p, j, st) ==
    [id |-> Catalogue[Slot(p, j)].id, name |-> Catalogue[Slot(p, j)].name,
     ver |-> Catalogue[Slot(p, j)].ver, status |-> st]

\* one entry of the JSON array of GET /v4/projects
Project(p) == [id |-> p, name |-> <<"P", Digit(p)>>]

RECURSIVE Ascending(_)
Ascending(S) ==
    IF S = {} THEN <<>>
    ELSE LET m == CHOOSE x \in S : \A y \in S : x <= y
         IN <<m>> \o Ascending(S \ {m})

ProjectLists ==
    { [i \in 1..Cardinality(S) |-> Project(Ascending(S)[i])] :
        S \in SUBSET (1..MaxProjects) }

ModelLists(p) ==
    UNION { { [i \in 1..Cardinality(S) |-> Model(p, Ascending(S)[i], st[Ascending(S)[i]])] :
                st \in [S -> ModelStatuses] } :
            S \in SUBSET (1..MaxModels) }

\* an HTTP response: its status code and its decoded JSON body
ProjectResponses == [status : HttpStatuses, body : ProjectLists]
ModelResponses(p) == [status : HttpStatuses, body : ModelLists(p)]

(***************************************************************************)
(* What a run does that can be seen from outside: its HTTP calls, its log  *)
(* lines, its prints, the routines main calls and its file accesses, in    *)
(* the order they happen.                                                  *)
(***************************************************************************)
Ev(k, by, f, p, m, v, s, n) ==
    [k |-> k, by |-> by, f |-> f, p |-> p, m |-> m, v |-> v, s |-> s, n |-> n]

\* requests.get / requests.post by routine `by` to endpoint f, answered with status s;
\* n is the truth value of what the wrapper returns, as its caller tests it: 1 for a
\* list that is not empty and for True, 0 for an empty list and for False
Http(by, f, p, m, v, s, n) == Ev("http", by, f, p, m, v, s, n)
\* logging.debug / logging.error by the wrapper of endpoint f
Log(level, f) == Ev("log", level, f, 0, <<>>, <<>>, 0, 0)
\* print(...)
Stdout(f, p, m, v) == Ev("print", "", f, p, m, v, 0, 0)
\* main calling one of its routines for project p
Call(f, p) == Ev("call", "main", f, p, <<>>, <<>>, 0, 0)
\* os.path.exists("stopped_models.txt") and open("stopped_models.txt", mode)
FileOp(by, f) == Ev("file", by, f, 0, <<>>, <<>>, 0, 0)

(***************************************************************************)
(* The HTTP wrappers.  Each returns its value and the events it caused.    *)
(***************************************************************************)
\* faulty variant: the status tested for truth
IsOk_AnyStatus(status) == status # 0

IsOk(status) == status = HttpOk

Truth(b) == IF b THEN 1 ELSE 0

fetch_projects(resp) ==
    IF IsOk(resp.status)
    THEN [ret |-> resp.body,
          ev  |-> <<Http("main", "projects", 0, <<>>, <<>>, resp.status, Truth(resp.body # <<>>)),
                    Log("debug", "projects")>>]
    ELSE [ret |-> <<>>,
          ev  |-> <<Http("main", "projects", 0, <<>>, <<>>, resp.status, 0),
                    Log("error", "projects")>>]

fetch_models(by, project_id, resp) ==
    IF IsOk(resp.status)
    THEN [ret |-> resp.body,
          ev  |-> <<Http(by, "models", project_id, <<>>, <<>>, resp.status, Truth(resp.body # <<>>)),
                    Log("debug", "models")>>]
    ELSE [ret |-> <<>>,
          ev  |-> <<Http(by, "models", project_id, <<>>, <<>>, resp.status, 0),
                    Log("error", "models")>>]

stop_model_deployment(model_id, active_model_version_id, status) ==
    IF IsOk(status)
    THEN [ret |-> TRUE,
          ev  |-> <<Http("stop", "stop", 0, model_id, active_model_version_id, status, 1),
                    Log("debug", "stop")>>]
    ELSE [ret |-> FALSE,
          ev  |-> <<Http("stop", "stop", 0, model_id, active_model_version_id, status, 0),
                    Log("error", "stop")>>]

start_model_deployment(model_id, active_model_version_id, status) ==
    IF IsOk(status)
    THEN [ret |-> TRUE,
          ev  |-> <<Http("start", "start", 0, model_id, active_model_version_id, status, 1),
                    Log("debug", "start")>>]
    ELSE [ret |-> FALSE,
          ev  |-> <<Http("start", "start", 0, model_id, active_model_version_id, status, 0),
                    Log("error", "start")>>]


(***************************************************************************)
(* The routines main calls.  Each is given the responses the platform will *)
(* send and returns the events it causes; stop_running_models also returns *)
(* the file it leaves, start_models_from_file whether it raised.           *)
(***************************************************************************)
IsRunning(model) == model.status = "Running"

ModelBlock(project_id, model) == Stdout("model", project_id, model.id, model.ver)

\* faulty variant: no return when no model is running
show_models_NoEarlyReturn(project, show_running_only, resp) ==
    LET r == fetch_models("show", project.id, resp)
        models == IF show_running_only THEN SelectSeq(r.ret, IsRunning) ELSE r.ret
    IN  IF r.ret = <<>>
        THEN r.ev
        ELSE r.ev \o <<Stdout("header", project.id, <<>>, <<>>)>>
                  \o [i \in 1..Len(models) |-> ModelBlock(project.id, models[i])]

show_models(project, show_running_only, resp) ==
    LET r == fetch_models("show", project.id, resp)
        models == IF show_running_only THEN SelectSeq(r.ret, IsRunning) ELSE r.ret
    IN  IF r.ret = <<>> \/ models = <<>>
        THEN r.ev
        ELSE r.ev \o <<Stdout("header", project.id, <<>>, <<>>)>>
                  \o [i \in 1..Len(models) |-> ModelBlock(project.id, models[i])]

\* faulty variant: the record is kept whatever the stop call returned
RECURSIVE StopLoop_IgnoringResult(_, _, _)
StopLoop_IgnoringResult(models, st, i) ==
    IF i > Len(models) THEN [stopped |-> <<>>, ev |-> <<>>]
    ELSE LET rest == StopLoop_IgnoringResult(models, st, i + 1)
             model == models[i]
         IN  IF IsRunning(model)
             THEN LET r == stop_model_deployment(model.id, model.ver, st[i])
                  IN  [stopped |-> <<FormatRecord(model)>> \o rest.stopped,
                       ev |-> r.ev \o rest.ev]
             ELSE rest

\* lines 93-98: the loop over the fetched models, from the i-th on
RECURSIVE StopLoop(_, _, _)
StopLoop(models, st, i) ==
    IF i > Len(models) THEN [stopped |-> <<>>, ev |-> <<>>]
    ELSE LET rest == StopLoop(models, st, i + 1)
             model == models[i]
         IN  IF IsRunning(model)
             THEN LET r == stop_model_deployment(model.id, model.ver, st[i])
                  IN  [stopped |-> (IF r.ret THEN <<FormatRecord(model)>> ELSE <<>>)
                                      \o rest.stopped,
                       ev |-> r.ev \o rest.ev]
             ELSE rest

\* faulty variant: the file opened with mode "w"
AppendMode_Truncating(f, text) == [exists |-> TRUE, text |-> text]

AppendMode(f, text) == [exists |-> TRUE, text |-> f.text \o text]

stop_running_models(project, resp, st, f) ==
    LET r == fetch_models("stop", project.id, resp)
        loop == StopLoop(r.ret, st, 1)
    IN  IF r.ret = <<>> THEN [file |-> f, ev |-> r.ev]
        ELSE IF loop.stopped = <<>> THEN [file |-> f, ev |-> r.ev \o loop.ev]
        ELSE [file |-> AppendMode(f, WriteLines(loop.stopped)),
              ev |-> r.ev \o loop.ev
                       \o <<FileOp("stop", "a"), Stdout("stopped", project.id, <<>>, <<>>)>>]

\* faulty variant: the first three fields are taken and the rest dropped
ParseLine_Lenient(line) ==
    LET parts == Split(Strip(line), Comma)
    IN  IF Len(parts) >= 3 THEN SubSeq(parts, 1, 3) ELSE <<>>

\* line 115: the three fields of a line, or <<>> where the unpacking raises ValueError
ParseLine(line) ==
    LET parts == Split(Strip(line), Comma)
    IN  IF Len(parts) = 3 THEN parts ELSE <<>>

\* faulty variant: the loop is left at the first start call that fails
RECURSIVE StartLoop_LeavingOnFailure(_, _, _)
StartLoop_LeavingOnFailure(lines, st, i) ==
    IF i > Len(lines) THEN [ev |-> <<>>, raised |-> FALSE]
    ELSE LET parts == ParseLine(lines[i])
         IN  IF parts = <<>> THEN [ev |-> <<>>, raised |-> TRUE]
             ELSE LET r == start_model_deployment(parts[2], parts[3], st[i])
                      rest == StartLoop_LeavingOnFailure(lines, st, i + 1)
                  IN  IF r.ret
                      THEN [ev |-> r.ev \o <<Stdout("started", 0, parts[2], parts[3])>>
                                        \o rest.ev,
                            raised |-> rest.raised]
                      ELSE [ev |-> r.ev, raised |-> FALSE]

\* lines 114-117: the loop over the lines read, from the i-th on
RECURSIVE StartLoop(_, _, _)
StartLoop(lines, st, i) ==
    IF i > Len(lines) THEN [ev |-> <<>>, raised |-> FALSE]
    ELSE LET parts == ParseLine(lines[i])
         IN  IF parts = <<>> THEN [ev |-> <<>>, raised |-> TRUE]
             ELSE LET r == start_model_deployment(parts[2], parts[3], st[i])
                      rest == StartLoop(lines, st, i + 1)
                  IN  [ev |-> r.ev
                                \o (IF r.ret THEN <<Stdout("started", 0, parts[2], parts[3])>>
                                    ELSE <<>>)
                                \o rest.ev,
                       raised |-> rest.raised]

\* faulty variant: no test for the file before it is opened
start_models_from_file_Unguarded(f, st) ==
    IF ~f.exists
    THEN [ev |-> <<FileOp("start", "r")>>, raised |-> TRUE]
    ELSE LET loop == StartLoop(ReadLines(f.text), st, 1)
         IN  [ev |-> <<FileOp("start", "r")>> \o loop.ev, raised |-> loop.raised]

start_models_from_file(f, st) ==
    IF ~f.exists
    THEN [ev |-> <<FileOp("start", "exists"), Stdout("nofile", 0, <<>>, <<>>)>>,
          raised |-> FALSE]
    ELSE LET loop == StartLoop(ReadLines(f.text), st, 1)
         IN  [ev |-> <<FileOp("start", "exists"), FileOp("start", "r")>> \o loop.ev,
              raised |-> loop.raised]

\* the start calls a run over `lines` makes: the lines before the first that does not parse
RECURSIVE Parsable(_)
Parsable(lines) ==
    IF lines = <<>> \/ ParseLine(Head(lines)) = <<>> THEN 0
    ELSE 1 + Parsable(Tail(lines))

RunningAt(models) == {i \in 1..Len(models) : IsRunning(models[i])}

(***************************************************************************)
(* The program: one process run after another, each one call of main().    *)
(***************************************************************************)
VARIABLES
    file,       \* stopped_models.txt: whether it exists, and its text
    operation,  \* args.operation of the current run
    projects,   \* main's list of projects
    pi,         \* the index in `projects` of the loop at line 141
    pc,         \* where the run is: "init", "loop", "call", "next", "done" or "fault"
    models,     \* the list the routine called last fetched for itself
    trace,      \* the events of the current iteration of the loop (before it, of main)
    banners,    \* for each project the loop has reached, whether its banner was printed
    posts,      \* the start calls of the current run
    stopped,    \* the models whose stop call was answered with 200, over all runs
    initial     \* the file before the first run

vars == <<file, operation, projects, pi, pc, models, trace, banners, posts, stopped, initial>>

NoFile == [exists |-> FALSE, text |-> <<>>]
TextFile(text) == [exists |-> TRUE, text |-> text]

\* what stopped_models.txt may be before the first run: absent, or left by hand with a
\* last line that has no terminator
InitFiles == {NoFile, TextFile(<<"x", Comma, "y", Comma, "z">>)}

Init ==
    /\ file \in InitFiles
    /\ initial = file
    /\ operation = ""
    /\ projects = <<>>
    /\ pi = 0
    /\ pc = "init"
    /\ models = <<>>
    /\ trace = <<>>
    /\ banners = <<>>
    /\ posts = 0
    /\ stopped = <<>>

\* a routine returning to the loop at line 141
Return ==
    /\ pi' = pi
    /\ pc' = "next"

\* lines 119-139: a new process parses its argument, starts a fresh log and fetches the projects
Main ==
    /\ pc = "init"
    /\ \E op \in Operations, resp \in ProjectResponses :
         LET r == fetch_projects(resp)
         IN  /\ operation' = op
             /\ projects' = r.ret
             /\ pi' = 1
             /\ trace' = r.ev \o (IF r.ret = <<>>
                                  THEN <<Stdout("noprojects", 0, <<>>, <<>>)>> ELSE <<>>)
             /\ pc' = IF r.ret = <<>> THEN "done" ELSE "loop"
    /\ UNCHANGED <<models, banners, posts>>
    /\ UNCHANGED <<file, stopped, initial>>

\* faulty variant: the banner printed before the models are tested
Dispatch_BannerFirst ==
    /\ pc = "loop"
    /\ \E resp \in ModelResponses(projects[pi].id) :
         LET r == fetch_models("main", projects[pi].id, resp)
         IN  /\ trace' = r.ev \o <<Log("debug", "main"),
                                   Stdout("banner", projects[pi].id, <<>>, <<>>)>>
             /\ banners' = Append(banners, r.ret # <<>>)
             /\ IF r.ret # <<>> THEN pc' = "call" /\ pi' = pi ELSE Return
    /\ UNCHANGED <<file, operation, projects, models, posts, stopped, initial>>

\* lines 141-148: the head of the loop for project pi
Dispatch ==
    /\ pc = "loop"
    /\ \E resp \in ModelResponses(projects[pi].id) :
         LET r == fetch_models("main", projects[pi].id, resp)
         IN  IF r.ret # <<>>
             THEN /\ trace' = r.ev \o <<Log("debug", "main"),
                                       Stdout("banner", projects[pi].id, <<>>, <<>>)>>
                  /\ banners' = Append(banners, TRUE)
                  /\ pc' = "call"
                  /\ pi' = pi
             ELSE /\ trace' = r.ev
                  /\ banners' = Append(banners, FALSE)
                  /\ Return
    /\ UNCHANGED <<file, operation, projects, models, posts, stopped, initial>>

\* lines 150-153
ShowModels ==
    /\ pc = "call"
    /\ operation \in {"show-all", "show-running"}
    /\ \E resp \in ModelResponses(projects[pi].id) :
         /\ models' = fetch_models("show", projects[pi].id, resp).ret
         /\ trace' = trace \o <<Call("show_models", projects[pi].id)>>
                           \o show_models(projects[pi], operation = "show-running", resp)
    /\ Return
    /\ UNCHANGED <<file, operation, projects, banners, posts, stopped, initial>>

\* lines 154-155
StopRunningModels ==
    /\ pc = "call"
    /\ operation = "stop"
    /\ \E resp \in ModelResponses(projects[pi].id) :
         LET fetched == fetch_models("stop", projects[pi].id, resp).ret
         IN  \E st \in [RunningAt(fetched) -> HttpStatuses] :
               LET r == stop_running_models(projects[pi], resp, st, file)
                   at == Ascending({i \in RunningAt(fetched) : st[i] = HttpOk})
                   ok == [k \in 1..Len(at) |-> fetched[at[k]]]
               IN  /\ Len(stopped) + Len(ok) <= MaxStops
                   /\ stopped' = stopped \o ok
                   /\ models' = fetched
                   /\ file' = r.file
                   /\ trace' = trace \o <<Call("stop_running_models", projects[pi].id)>>
                                     \o r.ev
    /\ Return
    /\ UNCHANGED <<operation, projects, banners, posts, initial>>

\* line 141: the loop takes the next project, or ends and main returns
Loop ==
    /\ pc = "next"
    /\ IF pi = Len(projects)
       THEN /\ pc' = "done"
            /\ UNCHANGED <<pi, models, trace>>
       ELSE /\ pc' = "loop"
            /\ pi' = pi + 1
            /\ models' = <<>>
            /\ trace' = <<>>
    /\ UNCHANGED <<file, operation, projects, banners, posts, stopped, initial>>

\* the process ends, by main returning or by the exception no one caught; only the
\* file outlives it
Exit ==
    /\ pc \in {"done", "fault"}
    /\ pc' = "init"
    /\ operation' = ""
    /\ projects' = <<>>
    /\ pi' = 0
    /\ models' = <<>>
    /\ trace' = <<>>
    /\ banners' = <<>>
    /\ posts' = 0
    /\ UNCHANGED <<file, stopped, initial>>

IsStartCall(e) == e.k = "http" /\ e.f = "start"

\* lines 156-157
StartModelsFromFile ==
    /\ pc = "call"
    /\ operation = "start"
    /\ \E st \in [1..Parsable(ReadLines(file.text)) -> HttpStatuses] :
         LET r == start_models_from_file(file, st)
         IN  /\ trace' = trace \o <<Call("start_models_from_file", projects[pi].id)>> \o r.ev
             /\ posts' = posts + Len(SelectSeq(r.ev, IsStartCall))
             /\ IF r.raised
                THEN pc' = "fault" /\ pi' = pi
                ELSE Return
    /\ UNCHANGED <<file, operation, projects, models, banners, stopped, initial>>

Next ==
    \/ Main
    \/ Dispatch
    \/ ShowModels
    \/ StopRunningModels
    \/ StartModelsFromFile
    \/ Loop
    \/ Exit

Spec == Init /\ [][Next]_vars

(***************************************************************************)
(* Notions the properties below are stated in.                             *)
(***************************************************************************)
IsHttp(e) == e.k = "http"
IsStopCall(e) == e.k = "http" /\ e.f = "stop"
IsStdout(e) == e.k = "print"
IsCall(e) == e.k = "call"
IsFileOp(e) == e.k = "file"
IsRead(e) == e.k = "file" /\ e.f = "r"

\* the events of the routine main called in this iteration: those after the call
Routine ==
    IF \E i \in 1..Len(trace) : IsCall(trace[i])
    THEN SubSeq(trace, (CHOOSE i \in 1..Len(trace) : IsCall(trace[i])) + 1, Len(trace))
    ELSE <<>>

\* a routine has been called in this iteration and has ended
Called(op) ==
    /\ pc \in {"next", "done", "fault"}
    /\ operation = op
    /\ \E i \in 1..Len(trace) : IsCall(trace[i])

\* a line without its terminator, and its fields: the text between the commas
Chomp(line) ==
    IF line # <<>> /\ line[Len(line)] = NL THEN SubSeq(line, 1, Len(line) - 1) ELSE line

Fields(line) == Split(Chomp(line), Comma)

WellFormed(line) == Len(Fields(line)) = 3

\* the line of the file format for a model: name,model_id,version_id and the terminator
RecordLine(model) ==
    model.name \o <<Comma>> \o model.id \o <<Comma>> \o model.ver \o <<NL>>

RECURSIVE RecordLines(_)
RecordLines(ms) ==
    IF ms = <<>> THEN <<>> ELSE RecordLine(Head(ms)) \o RecordLines(Tail(ms))

HasChar(text, c) == \E i \in 1..Len(text) : text[i] = c

NoLineBreak(model) ==
    ~HasChar(model.name, NL) /\ ~HasChar(model.id, NL) /\ ~HasChar(model.ver, NL)

IsPrefix(a, b) == Len(a) <= Len(b) /\ SubSeq(b, 1, Len(a)) = a

\* the step that is one call of stop_running_models
StopStep == pc = "call" /\ operation = "stop" /\ pc' = "next"

\* after that step: the running models fetched, their stop calls, and the models stopped
RunningFetched == SelectSeq(models', IsRunning)
StopCalls == SelectSeq(trace', IsStopCall)
StoppedNow ==
    LET at == Ascending({i \in 1..Len(StopCalls) : StopCalls[i].s = 200})
    IN  [k \in 1..Len(at) |-> RunningFetched[at[k]]]
Appended == SubSeq(file'.text, Len(file.text) + 1, Len(file'.text))

(***************************************************************************)
(* C1 (as amended).  One call of stop_running_models makes one stop call   *)
(* for each of the N running models fetched, in order; with M of them      *)
(* answered 200 it appends to the file exactly M records, one per model    *)
(* stopped and in that order, each name,model_id,version_id of that model  *)
(* followed by a line terminator.  These are exactly M lines when no name, *)
(* id or version id of a stopped model holds a line break.  With M = 0 the *)
(* file is neither created nor written.                                    *)
(***************************************************************************)
C1_StopAppendsOneRecordPerStoppedModel ==
    [][StopStep =>
        /\ Len(StopCalls) = Len(RunningFetched)
        /\ \A i \in 1..Len(StopCalls) :
             /\ StopCalls[i].m = RunningFetched[i].id
             /\ StopCalls[i].v = RunningFetched[i].ver
        /\ file'.text = file.text \o RecordLines(StoppedNow)
        /\ (\A k \in 1..Len(StoppedNow) : NoLineBreak(StoppedNow[k]))
             => /\ Len(ReadLines(Appended)) = Len(StoppedNow)
                /\ \A k \in 1..Len(StoppedNow) :
                     ReadLines(Appended)[k] = RecordLine(StoppedNow[k])
        /\ StoppedNow # <<>> => file'.exists
        /\ StoppedNow = <<>>
             => /\ file' = file
                /\ \A i \in 1..Len(trace') : ~IsFileOp(trace'[i])
    ]_vars

\* C1 as first stated: exactly M lines are appended, whatever the names hold
C1_Original_ExactlyMLines ==
    [][StopStep =>
        /\ Len(ReadLines(Appended)) = Len(StoppedNow)
        /\ \A k \in 1..Len(StoppedNow) : ReadLines(Appended)[k] = RecordLine(StoppedNow[k])
        /\ StoppedNow = <<>> => file' = file
    ]_vars

\* a call that found two running models and stopped one of them, after which the file exists
C1_Witness ==
    /\ Called("stop")
    /\ Len(SelectSeq(models, IsRunning)) = 2
    /\ Len(SelectSeq(trace, IsStopCall)) = 2
    /\ \E i, j \in 1..Len(trace) :
         /\ IsStopCall(trace[i]) /\ trace[i].s = 200
         /\ IsStopCall(trace[j]) /\ trace[j].s # 200
    /\ file.exists

(***************************************************************************)
(* C6.  The text of stopped_models.txt only grows at its end: over every   *)
(* step the text before is a prefix of the text after and an existing file *)
(* stays; only a call of stop_running_models changes the file, so show-all,*)
(* show-running and start leave it exactly as it was.                      *)
(***************************************************************************)
C6_FileIsAppendOnly ==
    [][/\ IsPrefix(file.text, file'.text)
       /\ file.exists => file'.exists
       /\ ~StopStep => file' = file
    ]_vars

\* a stop has added to a file that already had text, and a later start has started a model
\* from it
C6_Witness ==
    /\ initial.text # <<>>
    /\ Len(file.text) > Len(initial.text)
    /\ Called("start")
    /\ \E i \in 1..Len(trace) : IsStdout(trace[i]) /\ trace[i].f = "started"

\* the start calls of the routine called in this iteration
StartCalls == SelectSeq(Routine, IsStartCall)

FileLines == ReadLines(file.text)

HasNoCommaOrLineBreak(model) ==
    /\ NoLineBreak(model)
    /\ ~HasChar(model.name, Comma) /\ ~HasChar(model.id, Comma) /\ ~HasChar(model.ver, Comma)

(***************************************************************************)
(* C2.  One call of start_models_from_file on a file all of whose K lines  *)
(* split on ',' into three fields makes exactly K start calls, one per     *)
(* line and in file order, each to the model id and version id that are    *)
(* the second and third field of that line, whatever projects main went    *)
(* through.  The code does not do this: see C7.                            *)
(***************************************************************************)
C2_StartCallsTheIdsOfEachLine ==
    (/\ Called("start")
     /\ file.exists
     /\ \A i \in 1..Len(FileLines) : WellFormed(FileLines[i]))
    => /\ Len(StartCalls) = Len(FileLines)
       /\ \A i \in 1..Len(FileLines) :
            /\ StartCalls[i].m = Fields(FileLines[i])[2]
            /\ StartCalls[i].v = Fields(FileLines[i])[3]

(***************************************************************************)
(* C3.  One call of start_models_from_file while stopped_models.txt is     *)
(* missing prints exactly one message, the one saying the file was not     *)
(* found, makes no HTTP call, does not open the file and returns without   *)
(* raising; the run has made no start call.                                *)
(***************************************************************************)
C3_MissingFileIsOneMessageAndNoCall ==
    (Called("start") /\ ~file.exists)
    => /\ pc # "fault"
       /\ SelectSeq(Routine, IsStdout) = <<Stdout("nofile", 0, <<>>, <<>>)>>
       /\ \A i \in 1..Len(Routine) : ~IsHttp(Routine[i]) /\ ~IsRead(Routine[i])
       /\ posts = 0

\* the routine was called with the file missing, and the run ended as a normal one
C3_Witness ==
    /\ Called("start")
    /\ ~file.exists
    /\ pc = "done"
    /\ \E i \in 1..Len(Routine) : IsStdout(Routine[i])

(***************************************************************************)
(* C4.  One call of show_models with the running-only filter for a project *)
(* whose fetched models hold none with activeVersionStatus "Running"       *)
(* prints nothing: no project header and no model block.                   *)
(***************************************************************************)
C4_ShowRunningIsSilentWithoutRunningModels ==
    (Called("show-running") /\ \A i \in 1..Len(models) : ~IsRunning(models[i]))
    => \A i \in 1..Len(Routine) : ~IsStdout(Routine[i])

\* show-running was called for a project that has models, none of them running
C4_Witness ==
    /\ Called("show-running")
    /\ models # <<>>
    /\ \A i \in 1..Len(models) : ~IsRunning(models[i])

(***************************************************************************)
(* C7.  Starting from an absent file, when every model stopped so far has  *)
(* a name, an id and a version id without comma and newline, a call of     *)
(* start_models_from_file makes start calls for exactly the (model id,     *)
(* version id) pairs whose stop call was answered 200.  The code does not  *)
(* do this for a version id that ends in a blank.                          *)
(***************************************************************************)
C7_StartCallsExactlyTheStoppedPairs ==
    (/\ initial = NoFile
     /\ Called("start")
     /\ \A k \in 1..Len(stopped) : HasNoCommaOrLineBreak(stopped[k]))
    => { <<StartCalls[i].m, StartCalls[i].v>> : i \in 1..Len(StartCalls) }
         = { <<stopped[k].id, stopped[k].ver>> : k \in 1..Len(stopped) }

\* the step that is one call of start_models_from_file
StartStep == pc = "call" /\ operation = "start" /\ pc' \in {"next", "fault"}

FirstMalformed ==
    CHOOSE j \in 1..Len(FileLines) :
        /\ ~WellFormed(FileLines[j])
        /\ \A i \in 1..(j - 1) : WellFormed(FileLines[i])

StartCallsMade == SelectSeq(SubSeq(trace', Len(trace) + 1, Len(trace')), IsStartCall)

(***************************************************************************)
(* C8.  When start_models_from_file reads a file whose first line that     *)
(* does not split on ',' into exactly three fields (an empty line is one)  *)
(* is line j, it makes one start call for each of the j-1 lines before it, *)
(* in order, and none for line j or a later line; it ends by the exception *)
(* no one catches, and the file is as it was.                              *)
(***************************************************************************)
C8_MalformedLineStopsTheStart ==
    [][(/\ StartStep
        /\ file.exists
        /\ \E j \in 1..Len(FileLines) : ~WellFormed(FileLines[j]))
       => /\ Len(StartCallsMade) = FirstMalformed - 1
          /\ \A i \in 1..(FirstMalformed - 1) :
               StartCallsMade[i].m = Fields(FileLines[i])[2]
          /\ pc' = "fault"
          /\ file' = file
    ]_vars

\* a start that made a call for a first line and then met a line it could not parse
C8_Witness ==
    /\ pc = "fault"
    /\ Len(StartCalls) >= 1
    /\ Len(FileLines) >= 2

\* the run is in, or has ended in, the iteration of the loop for project pi
InIteration == pc \in {"call", "next", "fault"} \/ (pc = "done" /\ projects # <<>>)

\* the routine main calls for an operation
RoutineOf(op) ==
    CASE op = "stop"  -> "stop_running_models"
      [] op = "start" -> "start_models_from_file"
      [] OTHER        -> "show_models"

RECURSIVE CountTrue(_)
CountTrue(bs) ==
    IF bs = <<>> THEN 0 ELSE (IF Head(bs) THEN 1 ELSE 0) + CountTrue(Tail(bs))

IsBanner(e) == e.k = "print" /\ e.f = "banner"
IsPost(e) == e.k = "http" /\ e.f \in {"stop", "start"}

(***************************************************************************)
(* C5.  Every HTTP response with a status other than 200 makes its wrapper *)
(* return the empty list or False and log an error.  The caller goes on:   *)
(* a failed project fetch ends the run as one with no projects, a failed   *)
(* model fetch of main skips the project, a failed model fetch of a        *)
(* routine leaves it with no models, a failed stop or start call is        *)
(* followed by the calls for the remaining models or lines, and the loop   *)
(* reaches every project.  The run ends by an exception only when a line   *)
(* of the file does not parse.                                             *)
(***************************************************************************)
C5_Non200IsLoggedAndSkipped ==
    /\ \A i \in 1..Len(trace) :
         (IsHttp(trace[i]) /\ trace[i].s # 200)
         => /\ trace[i].n = 0
            /\ i < Len(trace)
            /\ trace[i + 1] = Log("error", trace[i].f)
            /\ trace[i].f = "projects" => (projects = <<>> /\ pc = "done")
            /\ (trace[i].f = "models" /\ trace[i].by = "main")
                 => (Len(trace) = 2 /\ pc \in {"next", "done"})
            /\ (trace[i].f = "models" /\ trace[i].by # "main")
                 => (models = <<>> /\ i = Len(trace) - 1 /\ pc \in {"next", "done"})
    /\ Called("stop")
         => Len(SelectSeq(Routine, IsStopCall)) = Len(SelectSeq(models, IsRunning))
    /\ (Called("start") /\ pc # "fault" /\ file.exists) => Len(StartCalls) = Len(FileLines)
    /\ (pc = "done" /\ projects # <<>>) => (pi = Len(projects) /\ Len(banners) = pi)
    /\ pc = "fault" => \E j \in 1..Len(FileLines) : ~WellFormed(FileLines[j])

\* a run that reached its second project and there went on to stop a model after the stop
\* call before it had failed
C5_Witness ==
    /\ Called("stop")
    /\ pi = 2
    /\ \E i, j \in 1..Len(trace) :
         /\ i < j
         /\ IsStopCall(trace[i]) /\ trace[i].s # 200
         /\ IsStopCall(trace[j]) /\ trace[j].s = 200

(***************************************************************************)
(* C9.  main goes through the projects of the list in order.  For each it  *)
(* fetches the models itself; the banner is printed and the routine of the *)
(* operation is called, once, exactly when that fetch returned at least    *)
(* one model.  A project with no model or a failed fetch gets no banner,   *)
(* no call and no stop or start call, and the loop goes on.  With an empty *)
(* project list, or a failed fetch of it, the run prints "No projects      *)
(* found." and does nothing else.                                          *)
(***************************************************************************)
C9_BannerAndCallIffModelsFetched ==
    /\ InIteration
         => /\ pi \in 1..Len(projects)
            /\ Len(banners) = pi
            /\ Len(trace) >= 2
            /\ IsHttp(trace[1]) /\ trace[1].f = "models" /\ trace[1].by = "main"
            /\ trace[1].p = projects[pi].id
            /\ banners[pi] <=> (trace[1].s = 200 /\ trace[1].n = 1)
            /\ banners[pi]
                 => /\ Len(trace) >= 4
                    /\ trace[4] = Stdout("banner", projects[pi].id, <<>>, <<>>)
                    /\ Len(SelectSeq(trace, IsBanner)) = 1
                    /\ pc # "call"
                         => /\ Len(trace) >= 5
                            /\ trace[5] = Call(RoutineOf(operation), projects[pi].id)
                            /\ Len(SelectSeq(trace, IsCall)) = 1
            /\ ~banners[pi] => (Len(trace) = 2 /\ pc \in {"next", "done"})
    /\ pc = "loop" => (pi \in 1..Len(projects) /\ Len(banners) = pi - 1)
    /\ (pc = "done" /\ projects # <<>>) => pi = Len(projects)
    /\ (pc = "done" /\ projects = <<>>)
         => /\ Len(trace) = 3
            /\ IsHttp(trace[1]) /\ trace[1].f = "projects"
            /\ trace[3] = Stdout("noprojects", 0, <<>>, <<>>)
            /\ banners = <<>>
            /\ posts = 0

\* a run that skipped its first project and stopped a model of its second
C9_Witness ==
    /\ pc = "done"
    /\ banners = <<FALSE, TRUE>>
    /\ \E i \in 1..Len(trace) : IsStopCall(trace[i]) /\ trace[i].s = 200

(***************************************************************************)
(* C10.  Under the operation start, start_models_from_file is called once  *)
(* for each project whose fetch by main returned a model, and reads the    *)
(* whole file each time: with P such projects and a file of K lines that   *)
(* all parse, the run makes P*K start calls.  With P = 0 it makes no start *)
(* call and does not touch the file.                                       *)
(***************************************************************************)
C10_StartRunsOncePerProjectWithModels ==
    operation = "start"
    => /\ (InIteration /\ pc # "call")
            => /\ Len(SelectSeq(trace, IsCall)) = (IF banners[pi] THEN 1 ELSE 0)
               /\ Len(SelectSeq(trace, IsRead))
                    = (IF banners[pi] /\ file.exists THEN 1 ELSE 0)
       /\ (/\ pc \in {"loop", "next", "done"}
           /\ file.exists
           /\ \A i \in 1..Len(FileLines) : WellFormed(FileLines[i]))
            => posts = CountTrue(banners) * Len(FileLines)
       /\ CountTrue(banners) = 0
            => (posts = 0 /\ \A i \in 1..Len(trace) : ~IsFileOp(trace[i]))

\* a run of start over two projects with models and a file of two lines: four start calls
C10_Witness ==
    /\ operation = "start"
    /\ pc = "done"
    /\ CountTrue(banners) = 2
    /\ Len(FileLines) = 2
    /\ \A i \in 1..Len(FileLines) : WellFormed(FileLines[i])
    /\ posts = 4

=============================================================================
